---- MODULE Spec2Model ----
(***************************************************************************)
(* Model of ts/routineProfileRefresh.ts: the RoutineProfileRefresher loop, *)
(* one routineProfileRefresh pass, the throttle (timeUntilNextRefresh),    *)
(* the lazy candidate selection (getFilteredConversations behind take)     *)
(* and the PQueue that runs the profile fetches.                           *)
(*                                                                         *)
(* Time is counted in minutes: every duration of the source is a multiple  *)
(* of MINUTE, so MINUTE is the unit.  `now' is Date.now(); sleep() and the *)
(* queue's per-task timeout are timers that count elapsed time down, so a  *)
(* change of the wall clock moves `now' and leaves the timers alone.       *)
(***************************************************************************)
EXTENDS Integers, Sequences, FiniteSets, TLC

\* ------------------------------------------------------------------------
\* Durations (ts/util/durations, imported at line 17) and the constants of
\* lines 19-24 and 136-140.
MINUTE == 1
HOUR == 60 * MINUTE
DAY == 24 * HOUR
MONTH == 30 * DAY

MAX_AGE_TO_BE_CONSIDERED_ACTIVE == MONTH
MAX_AGE_TO_BE_CONSIDERED_RECENTLY_REFRESHED == DAY
MutMaxConversations == 50 + 1
MAX_CONVERSATIONS_TO_REFRESH == 50
MIN_ELAPSED_DURATION_TO_REFRESH_AGAIN == 12 * HOUR
MIN_REFRESH_DELAY == MINUTE
MutConcurrency == 5 + 1
QueueConcurrency == 5
QueueTimeout == MINUTE * 30

\* ------------------------------------------------------------------------
\* Values that are not numbers: undefined / null, and a stored value that
\* is neither nil nor a normal number (NaN, a string, ...).
Nil == -1
Invalid == -2

\* ------------------------------------------------------------------------
\* Bounds of the model.
T0 == 100000            \* Date.now() when start() is called
MaxTime == 101500       \* the clock is not advanced past this
MinTime == 99000        \* the clock is not set back before this
MaxPasses == 2          \* triggered passes (queues created) in one run
MaxIters == 4           \* iterations of the loop in one run
MaxAdjust == 1          \* wall-clock adjustments in one run
BigMax == 52            \* individuals in the largest generated contact list
OurId == 1              \* the id getOurConversationId() answers when known

Max(a, b) == IF a >= b THEN a ELSE b

isNil(v) == v = Nil
isNormalNumber(v) == v # Nil /\ v # Invalid

\* ------------------------------------------------------------------------
\* Contacts.  A conversation is a record
\*   [id, type, active_at, profileLastFetchedAt, expired, members]
\* where `expired' is what hasProfileKeyCredentialExpired() answers and
\* members is the sequence getMembers() returns (conversation records).
Conv(id, type, activeAt, fetchedAt, expired, members) ==
    [id |-> id, type |-> type, active_at |-> activeAt,
     profileLastFetchedAt |-> fetchedAt, expired |-> expired,
     members |-> members]

Private(id, activeAt, fetchedAt, expired) ==
    Conv(id, "private", activeAt, fetchedAt, expired, <<>>)

Group(id, activeAt, members) == Conv(id, "group", activeAt, Nil, FALSE, members)

MutIsConversationActive(c, t) == isNormalNumber(c.active_at)
isConversationActive(c, t) ==
    /\ isNormalNumber(c.active_at)
    /\ c.active_at + MAX_AGE_TO_BE_CONSIDERED_ACTIVE > t

MutHasRefreshedProfileRecently(c, t) == FALSE
hasRefreshedProfileRecently(c, t) ==
    /\ isNormalNumber(c.profileLastFetchedAt)
    /\ c.profileLastFetchedAt + MAX_AGE_TO_BE_CONSIDERED_RECENTLY_REFRESHED > t

\* lodash sortBy: stable, ascending, undefined after every number.
KeyGreater(a, b) ==
    IF isNil(a) THEN ~isNil(b)
    ELSE IF isNil(b) THEN FALSE ELSE a > b

RECURSIVE InsertSorted(_, _)
InsertSorted(s, c) ==
    IF s = <<>> THEN <<c>>
    ELSE IF KeyGreater(s[Len(s)].active_at, c.active_at)
         THEN Append(InsertSorted(SubSeq(s, 1, Len(s) - 1), c), s[Len(s)])
         ELSE Append(s, c)

MutSortBy(s) == s
RECURSIVE sortBy(_)
sortBy(s) ==
    IF s = <<>> THEN <<>>
    ELSE \* the sorted front is computed once
         CHOOSE r \in { InsertSorted(front, s[Len(s)]) :
                            front \in {sortBy(SubSeq(s, 1, Len(s) - 1))} } : TRUE

\* ------------------------------------------------------------------------
\* getFilteredConversations: the generator.  Its position is (idx, midx):
\* the conversation of `sorted' under examination and, inside a group, the
\* member under examination; `seen' is conversationIdsSeen.
MutInitialSeen(our) == {}
InitialSeen(our) == {our}

MutMarkSeen(seen, id) == seen
MarkSeen(seen, id) == seen \cup {id}

GenResult(tag, id, idx, midx, seen, clears) ==
    [tag |-> tag, id |-> id, idx |-> idx, midx |-> midx, seen |-> seen,
     clears |-> clears]

\* One next() of the generator: runs to the next yield, to the end of the
\* list ("done") or to the missingCaseError of an unknown type ("throw").
RECURSIVE GenNext(_, _, _, _, _, _)
GenNext(list, our, t, idx, midx, seen) ==
    IF idx > Len(list) THEN GenResult("done", Nil, idx, midx, seen, FALSE)
    ELSE LET c == list[idx] IN
         IF c.type = "private" THEN
             IF c.expired /\ (c.id = our \/ c.id \notin seen)
             THEN GenResult("yield", c.id, idx + 1, 1, MarkSeen(seen, c.id), TRUE)
             ELSE IF /\ c.id \notin seen
                     /\ isConversationActive(c, t)
                     /\ ~hasRefreshedProfileRecently(c, t)
             THEN GenResult("yield", c.id, idx + 1, 1, MarkSeen(seen, c.id), FALSE)
             ELSE GenNext(list, our, t, idx + 1, 1, seen)
         ELSE IF c.type = "group" THEN
             IF midx > Len(c.members)
             THEN GenNext(list, our, t, idx + 1, 1, seen)
             ELSE LET m == c.members[midx] IN
                  IF m.id \notin seen /\ ~hasRefreshedProfileRecently(m, t)
                  THEN GenResult("yield", m.id, idx, midx + 1,
                                 MarkSeen(seen, m.id), FALSE)
                  ELSE GenNext(list, our, t, idx, midx + 1, seen)
         ELSE GenResult("throw", Nil, idx, midx, seen, FALSE)

\* take(iterable, amount): the iterator is exhausted once `amount' items
\* have been handed out.
takeDone(taken) == taken >= MAX_CONVERSATIONS_TO_REFRESH

\* ------------------------------------------------------------------------
\* The PQueue of one pass together with the counters of the pass's closure.
\*   queue      tasks added and not yet started (FIFO)
\*   run        the tasks holding one of the queue's slots, each with the
\*              time left before the queue's timeout abandons it
\*   abandoned  number of tasks the timeout gave up on whose getProfile
\*              call is still in flight
\*   failed, timedOut, late   number of tasks whose getProfile rejected,
\*              that the timeout gave up on, and whose getProfile resolved
\*              after the timeout had given up on them
\*   added      the contacts the selection handed to the queue, in order
EmptyRun == [i \in {} |-> 0]

BlankExec ==
    [status |-> "unused", queue |-> <<>>, run |-> EmptyRun, abandoned |-> 0,
     failed |-> 0, timedOut |-> 0, late |-> 0, added |-> <<>>,
     totalCount |-> 0, successCount |-> 0]

Running(e) == DOMAIN e.run

Idle(e) == e.queue = <<>> /\ Running(e) = {}

Release(e, i) == [e EXCEPT !.run = [j \in Running(e) \ {i} |-> e.run[j]]]

\* _tryToStartAnother: the head of the queue gets a slot when one is free;
\* the task then runs up to its first await: totalCount += 1 and the call
\* of getProfile.
tryToStartAnother(e) ==
    IF e.queue # <<>> /\ Cardinality(Running(e)) < QueueConcurrency
    THEN LET h == Head(e.queue) IN
         [e EXCEPT !.queue = Tail(e.queue),
                   !.run = [j \in Running(e) \cup {h} |->
                              IF j = h THEN QueueTimeout ELSE e.run[j]],
                   !.totalCount = e.totalCount + 1]
    ELSE e

\* refreshQueue.add(() => refreshConversation(conversation))
QueueAdd(e, id) ==
    tryToStartAnother([e EXCEPT !.queue = Append(e.queue, id),
                                !.added = Append(e.added, id)])

\* getProfile resolved in time: successCount += 1, the slot is handed on.
AfterResolve(e, i) ==
    tryToStartAnother([Release(e, i) EXCEPT !.successCount = e.successCount + 1])

\* getProfile rejected: caught and logged, the slot is handed on.
MutAfterReject(e, i) ==
    [Release(e, i) EXCEPT !.failed = e.failed + 1, !.queue = <<>>]
AfterReject(e, i) ==
    tryToStartAnother([Release(e, i) EXCEPT !.failed = e.failed + 1])

\* The queue's timeout fired: the slot is handed on, the task stays in flight.
AfterTimeout(e, i) ==
    tryToStartAnother([Release(e, i) EXCEPT !.timedOut = e.timedOut + 1,
                                            !.abandoned = e.abandoned + 1])

\* An abandoned task's getProfile resolves after all: line 127 still runs.
AfterLateResolve(e) ==
    [e EXCEPT !.abandoned = e.abandoned - 1, !.late = e.late + 1,
              !.successCount = e.successCount + 1]

\* An abandoned task's getProfile rejects after all: caught and logged.
AfterLateReject(e) ==
    [e EXCEPT !.abandoned = e.abandoned - 1, !.failed = e.failed + 1]

\* ------------------------------------------------------------------------
\* timeUntilNextRefresh (the assert of an invalid stored value only logs).
\* assert (ts/util/assert): a failed assertion is logged and the caller goes
\* on.
assert(condition) == IF condition THEN "ok" ELSE "logged"

\* Lines 163-166: the stored value is neither nil nor a normal number.
timeUntilNextRefreshThrows(stored) ==
    /\ ~isNil(stored)
    /\ ~isNormalNumber(stored)
    /\ assert(FALSE) = "thrown"

MutTimeUntilNextRefresh(stored, t) == 0
MutTimeInvalid(stored, t) ==
    IF isNil(stored) THEN 0
    ELSE IF isNormalNumber(stored)
         THEN Max(0, (stored + MIN_ELAPSED_DURATION_TO_REFRESH_AGAIN) - t)
         ELSE MIN_ELAPSED_DURATION_TO_REFRESH_AGAIN
MutTimeNoClamp(stored, t) ==
    IF isNil(stored) THEN 0
    ELSE IF isNormalNumber(stored)
         THEN (stored + MIN_ELAPSED_DURATION_TO_REFRESH_AGAIN) - t
         ELSE 0
timeUntilNextRefresh(stored, t) ==
    IF isNil(stored) THEN 0
    ELSE IF isNormalNumber(stored)
         THEN Max(0, (stored + MIN_ELAPSED_DURATION_TO_REFRESH_AGAIN) - t)
         ELSE 0

\* ------------------------------------------------------------------------
\* What getAllConversations() can answer at time t.  Ids are OurId + k.
Id(k) == OurId + k

\* active a day ago, never fetched: selected by the freshness rule
Fresh(k, t) == Private(Id(k), t - DAY, Nil, FALSE)

Snapshots(t) ==
    { \* two selected contacts, then an unknown type
      << Conv(Id(9), "unknown", t, Nil, FALSE, <<>>),
         Fresh(1, t), Private(Id(2), t - DAY - 1, Nil, FALSE) >>,
      \* our own conversation (expired), a group naming a contact twice,
      \* ourselves and a recently fetched contact, and contacts that are not
      \* selected as individuals
      << Private(OurId, t, t, TRUE),
         Group(Id(8), t - 3 * DAY,
               << Fresh(1, t), Private(OurId, t, t, TRUE), Fresh(1, t),
                  Private(Id(2), t - 40 * DAY, t - HOUR, FALSE) >>),
         Fresh(1, t),
         Private(Id(3), t - 40 * DAY, Nil, FALSE),
         Private(Id(2), t - 40 * DAY, t - HOUR, FALSE) >>,
      \* an unknown type met before anything is selected
      << Conv(Id(9), "unknown", Nil, Nil, FALSE, <<>>) >>,
      \* no contacts at all
      << >> }

\* ------------------------------------------------------------------------
VARIABLES
    pc,           \* where the loop of start() stands
    iters,        \* iterations of the loop begun so far
    now,          \* Date.now()
    adjusts,      \* wall-clock adjustments made so far
    storage,      \* the value stored under STORAGE_KEY
    sleepLeft,    \* time left of the sleep() the loop awaits
    ourConversationId,
    putValue,     \* the argument of the storage.put being awaited
    sorted,       \* the generator's sorted copy of allConversations
    idx, midx, seen,   \* the generator's position and conversationIdsSeen
    taken,        \* items take() has handed out
    cleared,      \* contacts whose credential fields this pass set to null
    epoch,        \* triggered passes so far; exec[epoch] is the latest
    exec,         \* per triggered pass: its queue and counters
    passEnd,      \* how the latest call of routineProfileRefresh ended
    lastError,    \* the error of the latest failure, "none" if none
    prevWrite, lastWrite   \* the last two values written to storage

vars == << pc, iters, now, adjusts, storage, sleepLeft, ourConversationId, putValue,
           sorted, idx, midx, seen, taken, cleared, epoch, exec, passEnd,
           lastError, prevWrite, lastWrite >>

schedVars == << pc, iters, sleepLeft, ourConversationId, putValue, passEnd, lastError >>
clockVars == << now, adjusts >>
storeVars == << storage, prevWrite, lastWrite >>
scanVars == << sorted, idx, midx, seen, taken, cleared >>

Passes == 1 .. MaxPasses

\* The loop is inside a stretch of synchronous code: nothing else runs.
Atomic == pc \in {"top", "call", "scan"}

Init ==
    /\ pc = "top"
    /\ iters = 0
    /\ now = T0
    /\ adjusts = 0
    /\ storage \in {Nil, Invalid, T0 - 11 * HOUR}
    /\ sleepLeft = 0
    /\ ourConversationId = Nil
    /\ putValue = Nil
    /\ sorted = <<>>
    /\ idx = 1
    /\ midx = 1
    /\ seen = {}
    /\ taken = 0
    /\ cleared = {}
    /\ epoch = 0
    /\ exec = [p \in Passes |-> BlankExec]
    /\ passEnd = "none"
    /\ lastError = "none"
    /\ prevWrite = Nil
    /\ lastWrite = Nil

\* The catch of lines 70-75: log, then sleep(MIN_REFRESH_DELAY).
MutCaught(err) ==
    /\ pc' = "exited"
    /\ sleepLeft' = 0
    /\ passEnd' = "raised"
    /\ lastError' = err
Caught(err) ==
    /\ pc' = "backoff"
    /\ sleepLeft' = MIN_REFRESH_DELAY
    /\ passEnd' = "raised"
    /\ lastError' = err

\* A queue nothing is left of is forgotten once its pass is over.
Forget(e) == IF e.status \in {"returned", "raised"} /\ Idle(e)
             THEN [BlankExec EXCEPT !.status = "over"] ELSE e

\* Lines 45-51: a new iteration computes the wait and goes to sleep.
Iterate ==
    /\ pc = "top"
    /\ ~timeUntilNextRefreshThrows(storage)
    /\ iters < MaxIters
    /\ iters' = iters + 1
    /\ pc' = "sleep"
    /\ sleepLeft' = timeUntilNextRefresh(storage, now)
    /\ exec' = [p \in Passes |-> Forget(exec[p])]
    /\ UNCHANGED << ourConversationId, putValue, passEnd, lastError, epoch >>
    /\ UNCHANGED << clockVars, storeVars, scanVars >>

\* Line 46 with storage.get (or the assertion of line 163) throwing: outside
\* the try, start() rejects.
IterateThrows ==
    /\ pc = "top"
    /\ pc' = "exited"
    /\ lastError' \in {"get"} \cup
           (IF timeUntilNextRefreshThrows(storage) THEN {"assert"} ELSE {})
    /\ UNCHANGED << iters, sleepLeft, ourConversationId, putValue, passEnd, epoch, exec >>
    /\ UNCHANGED << clockVars, storeVars, scanVars >>

\* Lines 53-61: the sleep is over; the local identity is resolved.
ResolveIdentity ==
    /\ pc = "sleep"
    /\ sleepLeft = 0
    /\ \E r \in {Nil, OurId} :
         /\ ourConversationId' = r
         /\ IF r = Nil
            THEN pc' = "backoff" /\ sleepLeft' = MIN_REFRESH_DELAY
            ELSE pc' = "call" /\ sleepLeft' = 0
    /\ UNCHANGED << iters, putValue, passEnd, lastError, epoch, exec >>
    /\ UNCHANGED << clockVars, storeVars, scanVars >>

\* Line 53 with getOurConversationId throwing: outside the try.
IdentityThrows ==
    /\ pc = "sleep"
    /\ sleepLeft = 0
    /\ pc' = "exited"
    /\ lastError' = "identity"
    /\ UNCHANGED << iters, sleepLeft, ourConversationId, putValue, passEnd, epoch, exec >>
    /\ UNCHANGED << clockVars, storeVars, scanVars >>

\* Lines 65-66 and 93-102: routineProfileRefresh is called; too soon, or
\* storage.put is called with Date.now() and awaited.
CallPass ==
    /\ pc = "call"
    /\ ~timeUntilNextRefreshThrows(storage)
    /\ \E list \in Snapshots(now) :
         IF timeUntilNextRefresh(storage, now) > 0
         THEN /\ pc' = "top"
              /\ passEnd' = "tooSoon"
              /\ UNCHANGED << putValue, sorted >>
         ELSE /\ epoch < MaxPasses
              /\ pc' = "put"
              /\ passEnd' = "running"
              /\ putValue' = now
              /\ sorted' = list
    /\ lastError' = "none"
    /\ UNCHANGED << iters, sleepLeft, ourConversationId, epoch, exec >>
    /\ UNCHANGED << clockVars, storeVars, idx, midx, seen, taken, cleared >>

\* getAllConversations (line 66) or storage.get (line 152, called from line
\* 95) throws: caught at line 70.
CallThrows ==
    /\ pc = "call"
    /\ \E err \in {"getAll", "get"} \cup
                   (IF timeUntilNextRefreshThrows(storage)
                    THEN {"assert"} ELSE {}) : Caught(err)
    /\ UNCHANGED << iters, ourConversationId, putValue, epoch, exec >>
    /\ UNCHANGED << clockVars, storeVars, scanVars >>

MutWritten(v) == UNCHANGED storeVars
Written(v) ==
    /\ storage' = v
    /\ prevWrite' = lastWrite
    /\ lastWrite' = v

\* Line 102 resolves; lines 104-140 and 186-188: the lazy selection and the
\* queue are set up.
PutDone ==
    /\ pc = "put"
    /\ Written(putValue)
    /\ pc' = "scan"
    /\ epoch' = epoch + 1
    /\ exec' = [exec EXCEPT ![epoch + 1] = [BlankExec EXCEPT !.status = "running"]]
    /\ sorted' = sortBy(sorted)
    /\ idx' = 1
    /\ midx' = 1
    /\ seen' = InitialSeen(ourConversationId)
    /\ taken' = 0
    /\ cleared' = {}
    /\ UNCHANGED << iters, sleepLeft, ourConversationId, putValue, passEnd, lastError >>
    /\ UNCHANGED clockVars

\* Line 102 rejects: caught at line 70.  The value may or may not have been
\* stored.
PutFails ==
    /\ pc = "put"
    /\ \E stored \in BOOLEAN :
         IF stored THEN Written(putValue) ELSE UNCHANGED storeVars
    /\ Caught("put")
    /\ UNCHANGED << iters, ourConversationId, putValue, epoch, exec >>
    /\ UNCHANGED << clockVars, scanVars >>

\* What the next() of the for loop at line 141 gets.
MutTakeNext == GenNext(sorted, ourConversationId, now, idx, midx, seen)
TakeNext ==
    IF takeDone(taken) THEN GenResult("done", Nil, idx, midx, seen, FALSE)
    ELSE GenNext(sorted, ourConversationId, now, idx, midx, seen)

\* Lines 141-143: one iteration of the for loop: the next selected contact
\* is added to the queue; at the end of the selection the pass awaits
\* onIdle; a missingCaseError ends the pass and is caught at line 70.
ScanStep ==
    /\ pc = "scan"
    /\ LET r == TakeNext IN
         /\ idx' = r.idx
         /\ midx' = r.midx
         /\ seen' = r.seen
         /\ cleared' = IF r.clears THEN cleared \cup {r.id} ELSE cleared
         /\ IF r.tag = "yield"
            THEN /\ taken' = taken + 1
                 /\ exec' = [exec EXCEPT ![epoch] = QueueAdd(exec[epoch], r.id)]
                 /\ UNCHANGED schedVars
            ELSE IF r.tag = "done"
            THEN /\ pc' = "idle"
                 /\ UNCHANGED << taken, exec, iters, sleepLeft, ourConversationId,
                                 putValue, passEnd, lastError >>
            ELSE /\ Caught("missingCase")
                 /\ exec' = [exec EXCEPT ![epoch].status = "raised"]
                 /\ UNCHANGED << taken, iters, ourConversationId, putValue >>
    /\ UNCHANGED << sorted, epoch >>
    /\ UNCHANGED << clockVars, storeVars >>

\* Lines 144-148: onIdle resolves, the counts are logged, the pass returns.
OnIdle ==
    /\ pc = "idle"
    /\ Idle(exec[epoch])
    /\ pc' = "top"
    /\ passEnd' = "returned"
    /\ exec' = [exec EXCEPT ![epoch].status = "returned"]
    /\ UNCHANGED << iters, sleepLeft, ourConversationId, putValue, lastError, epoch >>
    /\ UNCHANGED << clockVars, storeVars, scanVars >>

\* Lines 58-60 and 74-76: the short sleep is over, the loop starts again.
MutBackoffDone ==
    /\ pc = "backoff"
    /\ sleepLeft = 0
    /\ pc' = "exited"
    /\ UNCHANGED << iters, sleepLeft, ourConversationId, putValue, passEnd,
                    lastError, epoch, exec >>
    /\ UNCHANGED << clockVars, storeVars, scanVars >>
BackoffDone ==
    /\ pc = "backoff"
    /\ sleepLeft = 0
    /\ pc' = "top"
    /\ UNCHANGED << iters, sleepLeft, ourConversationId, putValue, passEnd,
                    lastError, epoch, exec >>
    /\ UNCHANGED << clockVars, storeVars, scanVars >>

\* ------------------------------------------------------------------------
\* The fetches: getProfile settles, or the queue's timeout fires.
FetchResolves ==
    /\ ~Atomic
    /\ \E p \in Passes : \E i \in Running(exec[p]) :
         exec' = [exec EXCEPT ![p] = AfterResolve(exec[p], i)]
    /\ UNCHANGED << schedVars, clockVars, storeVars, scanVars, epoch >>

FetchRejects ==
    /\ ~Atomic
    /\ \E p \in Passes : \E i \in Running(exec[p]) :
         exec' = [exec EXCEPT ![p] = AfterReject(exec[p], i)]
    /\ UNCHANGED << schedVars, clockVars, storeVars, scanVars, epoch >>

FetchTimesOut ==
    /\ ~Atomic
    /\ \E p \in Passes : \E i \in Running(exec[p]) :
         /\ exec[p].run[i] = 0
         /\ exec' = [exec EXCEPT ![p] = AfterTimeout(exec[p], i)]
    /\ UNCHANGED << schedVars, clockVars, storeVars, scanVars, epoch >>

LateResolves ==
    /\ ~Atomic
    /\ \E p \in Passes :
         /\ exec[p].abandoned > 0
         /\ exec' = [exec EXCEPT ![p] = AfterLateResolve(exec[p])]
    /\ UNCHANGED << schedVars, clockVars, storeVars, scanVars, epoch >>

LateRejects ==
    /\ ~Atomic
    /\ \E p \in Passes :
         /\ exec[p].abandoned > 0
         /\ exec' = [exec EXCEPT ![p] = AfterLateReject(exec[p])]
    /\ UNCHANGED << schedVars, clockVars, storeVars, scanVars, epoch >>

\* ------------------------------------------------------------------------
\* Time.  The timers that have not yet expired:
Timers ==
    (IF pc \in {"sleep", "backoff"} THEN {sleepLeft} ELSE {})
    \cup UNION { { exec[p].run[i] : i \in Running(exec[p]) } : p \in Passes }

SetMin(S) == CHOOSE d \in S : \A o \in S : d <= o

\* Time passes until the next timer expires.  Timers are punctual: time
\* does not pass while an expired timer has not been served.
Tick ==
    /\ ~Atomic
    /\ Timers # {}
    /\ LET d == SetMin(Timers) IN
         /\ d > 0
         /\ now + d <= MaxTime
         /\ now' = now + d
         /\ sleepLeft' = Max(0, sleepLeft - d)
         /\ exec' = [p \in Passes |->
                       [exec[p] EXCEPT !.run = [i \in Running(exec[p]) |->
                                                  exec[p].run[i] - d]]]
    /\ UNCHANGED << pc, iters, ourConversationId, putValue, passEnd, lastError >>
    /\ UNCHANGED << adjusts, storeVars, scanVars, epoch >>

\* The wall clock is set back or forward while the loop sleeps; the timers
\* are not affected.
ClockAdjust ==
    /\ pc \in {"sleep", "backoff"}
    /\ adjusts < MaxAdjust
    /\ \E d \in {0 - HOUR, HOUR} :
         /\ now + d >= MinTime
         /\ now + d <= MaxTime
         /\ now' = now + d
    /\ adjusts' = adjusts + 1
    /\ UNCHANGED << schedVars, storeVars, scanVars, epoch, exec >>

Next ==
    \/ Iterate
    \/ IterateThrows
    \/ ResolveIdentity
    \/ IdentityThrows
    \/ CallPass
    \/ CallThrows
    \/ PutDone
    \/ PutFails
    \/ ScanStep
    \/ OnIdle
    \/ BackoffDone
    \/ FetchResolves
    \/ FetchRejects
    \/ FetchTimesOut
    \/ LateResolves
    \/ LateRejects
    \/ Tick
    \/ ClockAdjust

Spec == Init /\ [][Next]_vars

\* ------------------------------------------------------------------------
\* The selection on large inputs: routineProfileRefresh has stored the time
\* and runs the for loop of lines 141-143 over a generated contact list.
\* Contact k was last active k minutes after the activity limit of t, so the
\* contacts are active and their activity timestamps are distinct.
Indiv(k, t) == Private(Id(k), (t - MONTH) + k, Nil, FALSE)

\* contact k with its credential expired (k a multiple of 5), fetched an
\* hour ago (of 3) or last active 40 days ago (of 4)
Mixed(k, t) ==
    Private(Id(k),
            IF k % 4 = 0 THEN t - 40 * DAY ELSE (t - MONTH) + k,
            IF k % 3 = 0 THEN t - HOUR ELSE Nil,
            k % 5 = 0)

\* n contacts, most recently active first
Individuals(n, t) == [k \in 1 .. n |-> Indiv((n + 1) - k, t)]
MixedList(n, t) == [k \in 1 .. n |-> Mixed((n + 1) - k, t)]

OurConv(activeAt, expired) == Private(OurId, activeAt, Nil, expired)

MembersOf(n, t) ==
    << Indiv(1, t), OurConv(t, FALSE), Indiv(2, t), Indiv(1, t),
       Private(Id(n + 5), t - 40 * DAY, t - HOUR, FALSE),
       Private(Id(n + 6), t - 40 * DAY, Nil, FALSE) >>

BigSizes == {0, 1, 2} \cup ((BigMax - 3) .. BigMax)

BigLists(t) ==
    UNION { { Individuals(n, t),
              \* our conversation, expired, the most recently active
              <<OurConv(t, TRUE)>> \o Individuals(n, t),
              \* our conversation, expired, the least recently active
              Individuals(n, t) \o <<OurConv(t - MONTH, TRUE)>>,
              \* our conversation not expired, and two groups naming it
              <<OurConv(t, FALSE)>> \o Individuals(n, t)
                  \o << Group(Id(n + 3), t - 2 * MONTH, MembersOf(n, t)),
                        Group(Id(n + 4), t, MembersOf(n, t)) >>,
              \* an unknown type after every contact
              <<Conv(Id(n + 3), "unknown", Nil, Nil, FALSE, <<>>)>>
                  \o Individuals(n, t),
              \* our conversation, expired, and an unknown type after it
              << Conv(Id(n + 3), "unknown", Nil, Nil, FALSE, <<>>),
                 OurConv(t, TRUE) >> \o Individuals(n, t),
              \* a group with expired members in a mixed list
              <<OurConv(Nil, TRUE)>> \o MixedList(n, t)
                  \o <<Group(Id(n + 3), (t - MONTH) + 2,
                             << Mixed(5, t), Mixed(1, t), Mixed(3, t),
                                Mixed(4, t), OurConv(Nil, TRUE) >>)>> }
            : n \in BigSizes }

InitSel ==
    /\ pc = "scan"
    /\ iters = 1
    /\ now = T0
    /\ adjusts = 0
    /\ storage = T0
    /\ sleepLeft = 0
    /\ ourConversationId = OurId
    /\ putValue = T0
    /\ \E list \in BigLists(T0) : sorted = sortBy(list)
    /\ idx = 1
    /\ midx = 1
    /\ seen = InitialSeen(OurId)
    /\ taken = 0
    /\ cleared = {}
    /\ epoch = 1
    /\ exec = [p \in Passes |->
                 IF p = 1 THEN [BlankExec EXCEPT !.status = "running"]
                 ELSE BlankExec]
    /\ passEnd = "running"
    /\ lastError = "none"
    /\ prevWrite = Nil
    /\ lastWrite = T0

SpecSel == InitSel /\ [][ScanStep]_vars

\* ------------------------------------------------------------------------
\* One pass with more selected contacts than the queue runs at a time:
\* routineProfileRefresh has stored the time; the pass is followed until it
\* returns.
ExecLists(t) ==
    { \* six individuals and our own conversation, expired
      <<OurConv(t, TRUE)>> \o [k \in 1 .. 6 |-> Fresh(7 - k, t)],
      \* four individuals and a group of four, two of them seen before
      << Fresh(4, t), Fresh(3, t), Fresh(2, t), Fresh(1, t),
         Group(Id(8), t,
               << Fresh(5, t), Fresh(1, t), Fresh(6, t), Fresh(2, t) >>) >> }

InitExec ==
    /\ pc = "scan"
    /\ iters = 1
    /\ now = T0
    /\ adjusts = 0
    /\ storage = T0
    /\ sleepLeft = 0
    /\ ourConversationId = OurId
    /\ putValue = T0
    /\ \E list \in ExecLists(T0) : sorted = sortBy(list)
    /\ idx = 1
    /\ midx = 1
    /\ seen = InitialSeen(OurId)
    /\ taken = 0
    /\ cleared = {}
    /\ epoch = 1
    /\ exec = [p \in Passes |->
                 IF p = 1 THEN [BlankExec EXCEPT !.status = "running"]
                 ELSE BlankExec]
    /\ passEnd = "running"
    /\ lastError = "none"
    /\ prevWrite = Nil
    /\ lastWrite = T0

NextExec ==
    \/ ScanStep
    \/ OnIdle
    \/ FetchResolves
    \/ FetchRejects
    \/ FetchTimesOut
    \/ LateResolves
    \/ LateRejects
    \/ Tick

SpecExec == InitExec /\ [][NextExec]_vars

\* ------------------------------------------------------------------------
\* The loop for ever, with collaborators that do not throw.  The code reads
\* the clock only to compare it with the stored timestamp and with the
\* contacts' timestamps, which are drawn relative to it: at the top of each
\* iteration the origin of time is moved to the present, and a stored
\* timestamp older than 12 hours, which is as good as any older one, is
\* kept at 12 hours.  Queues nothing is left of give their place to the
\* queues of later passes.
Rebased(v) ==
    IF v < 0 THEN v
    ELSE Max(T0 - MIN_ELAPSED_DURATION_TO_REFRESH_AGAIN, v - (now - T0))

Kept == { p \in Passes : Forget(exec[p]).status \notin {"unused", "over"} }

Nth(S, q) == CHOOSE p \in S : Cardinality({ o \in S : o < p }) = q - 1

Compacted ==
    [q \in Passes |->
        IF q <= Cardinality(Kept) THEN exec[Nth(Kept, q)] ELSE BlankExec]

\* Lines 45-51, as Iterate, iterations not counted.
LiveIterate ==
    /\ pc = "top"
    /\ ~timeUntilNextRefreshThrows(storage)
    /\ pc' = "sleep"
    /\ sleepLeft' = timeUntilNextRefresh(storage, now)
    /\ now' = T0
    /\ storage' = Rebased(storage)
    /\ putValue' = Rebased(putValue)
    /\ prevWrite' = Rebased(prevWrite)
    /\ lastWrite' = Rebased(lastWrite)
    /\ exec' = Compacted
    /\ epoch' = Cardinality(Kept)
    /\ UNCHANGED << iters, adjusts, ourConversationId, passEnd, lastError >>
    /\ UNCHANGED scanVars

NextLive ==
    \/ LiveIterate
    \/ ResolveIdentity
    \/ CallPass
    \/ PutDone
    \/ ScanStep
    \/ OnIdle
    \/ BackoffDone
    \/ FetchResolves
    \/ FetchRejects
    \/ FetchTimesOut
    \/ LateResolves
    \/ LateRejects
    \/ Tick

\* The event loop runs every continuation that is ready, and timers fire.
\* The steps of the loop are enabled one at a time (by pc), and so are the
\* passing of time and the timeout of a fetch (timers are punctual).
LoopStep ==
    \/ LiveIterate
    \/ ResolveIdentity
    \/ CallPass
    \/ PutDone
    \/ ScanStep
    \/ OnIdle
    \/ BackoffDone

TimerStep == Tick \/ FetchTimesOut

Fairness == WF_vars(LoopStep) /\ WF_vars(TimerStep)

SpecLive == Init /\ [][NextLive]_vars /\ Fairness

\* ========================================================================
\* Properties.

Count(seq, x) == Cardinality({ i \in 1 .. Len(seq) : seq[i] = x })

\* C1: any two consecutive writes of the 'last triggered' timestamp carry
\* clock values at least 12 hours apart, whichever path the loop took in
\* between.
C1_MinSpacing ==
    prevWrite # Nil => lastWrite - prevWrite >= 12 * 60

C1_Witness ==
    /\ prevWrite # Nil
    /\ lastWrite = prevWrite + 12 * 60

\* C2: at most 5 fetches of a pass hold a slot of its queue (started and not
\* yet settled or abandoned) at any time.
C2_AtMostFiveActive ==
    \A p \in Passes : Cardinality(Running(exec[p])) <= 5

C2_Witness ==
    \E p \in Passes :
        /\ Cardinality(Running(exec[p])) = 5
        /\ exec[p].queue # <<>>
        /\ exec[p].timedOut > 0

\* C3: a pass that has returned or raised has no dispatched fetch that is
\* still queued or running.
C3_PassEndsSettled ==
    \A p \in Passes :
        exec[p].status \in {"returned", "raised"} => Idle(exec[p])

\* C4: the scans and fetches of at most one pass are active at a time, and
\* the loop begins an iteration only when no fetch of an earlier pass is
\* active.
C4_OnePassInFlight ==
    /\ Cardinality({ p \in Passes :
                       \/ ~Idle(exec[p])
                       \/ (p = epoch /\ pc = "scan") }) <= 1
    /\ pc = "top" => \A p \in Passes : Idle(exec[p])

\* C5: the loop never exits, whatever error a collaborator raises.
C5_LoopNeverExits ==
    pc # "exited"

\* C6: when the selection meets an unknown contact kind the pass raises into
\* the loop's catch, which sleeps one minute; the backoff is left only for
\* the top of the loop, and only once that minute is over.
C6_UnknownKindRecovers ==
    [][ /\ (pc = "scan" /\ TakeNext.tag = "throw")
            => (pc' = "backoff" /\ sleepLeft' = 1 /\ passEnd' = "raised")
        /\ (pc = "backoff" /\ pc' # "backoff")
            => (pc' = "top" /\ sleepLeft = 0) ]_vars

C6_Witness ==
    /\ pc = "sleep"
    /\ lastError = "missingCase"
    /\ passEnd = "raised"

\* C7: a fetch failure never raises the pass and never keeps another selected
\* contact from being fetched: a pass that returns has attempted every
\* selected contact, and when every fetch failed it has succeeded = 0.
C7_FailuresIsolated ==
    /\ passEnd # "raised"
    /\ \A p \in Passes :
           exec[p].status = "returned" =>
               /\ exec[p].totalCount = Len(exec[p].added)
               /\ exec[p].failed = Len(exec[p].added)
                      => exec[p].successCount = 0

C7_Witness ==
    \E p \in Passes :
        /\ exec[p].status = "returned"
        /\ Len(exec[p].added) > 5
        /\ exec[p].failed = Len(exec[p].added)
        /\ exec[p].timedOut = 0

\* C8: the selection never hands out the same contact id twice.
C8_NoDuplicates ==
    \A p \in Passes :
        \A i, j \in 1 .. Len(exec[p].added) :
            i # j => exec[p].added[i] # exec[p].added[j]

GroupsNaming(id) ==
    { g \in 1 .. Len(sorted) :
        /\ sorted[g].type = "group"
        /\ \E k \in 1 .. Len(sorted[g].members) : sorted[g].members[k].id = id }

C8_Witness ==
    /\ pc = "idle"
    /\ \E i \in 1 .. Len(sorted) :
           /\ sorted[i].type = "private"
           /\ Count(exec[epoch].added, sorted[i].id) = 1
           /\ Cardinality(GroupsNaming(sorted[i].id)) >= 2

\* C9: the selection hands out at most 50 contacts.
C9_AtMostFifty ==
    \A p \in Passes : Len(exec[p].added) <= 50

C9_Witness ==
    /\ pc = "idle"
    /\ Len(exec[epoch].added) = 50
    /\ idx <= Len(sorted)

\* C10 as stated: the local identity is not selected unless it has an
\* expired credential, and then it is selected exactly once with its
\* credential fields cleared.
OurExpired ==
    \E i \in 1 .. Len(sorted) :
        /\ sorted[i].type = "private"
        /\ sorted[i].id = ourConversationId
        /\ sorted[i].expired

C10_Original ==
    pc = "idle" =>
        IF OurExpired
        THEN /\ Count(exec[epoch].added, ourConversationId) = 1
             /\ ourConversationId \in cleared
        ELSE Count(exec[epoch].added, ourConversationId) = 0

\* C10 as amended: the local identity is selected at most once and only
\* when it has an expired credential, with its credential fields cleared;
\* with an expired credential it is left out only when 50 contacts were
\* selected before the scan reached it.
C10_Amended ==
    /\ Count(exec[epoch].added, ourConversationId) <= 1
    /\ Count(exec[epoch].added, ourConversationId) = 1
           => (OurExpired /\ ourConversationId \in cleared)
    /\ (pc = "idle" /\ OurExpired
            /\ Count(exec[epoch].added, ourConversationId) = 0)
           => Len(exec[epoch].added) = 50

C10_Witness ==
    /\ pc = "idle"
    /\ OurExpired
    /\ Count(exec[epoch].added, ourConversationId) = 1
    /\ ourConversationId \in cleared
    /\ Cardinality(GroupsNaming(ourConversationId)) >= 1

\* C11: with more than 50 eligible individuals of distinct activity
\* timestamps, exactly 50 are selected: the 50 least recently active, the
\* least recently active first.
Entries == 1 .. Len(sorted)

Eligible(c) ==
    /\ c.type = "private"
    /\ c.id # ourConversationId
    /\ ~c.expired
    /\ c.active_at >= 0
    /\ c.active_at + 30 * 24 * 60 > now
    /\ c.profileLastFetchedAt = Nil

AllEligibleDistinct ==
    /\ \A i \in Entries : Eligible(sorted[i])
    /\ \A i, j \in Entries :
           i # j => /\ sorted[i].id # sorted[j].id
                    /\ sorted[i].active_at # sorted[j].active_at

\* the number of contacts less recently active than c
Older(c) == Cardinality({ j \in Entries : sorted[j].active_at < c.active_at })

C11_OldestFifty ==
    (pc = "idle" /\ AllEligibleDistinct /\ Len(sorted) > 50) =>
        /\ Len(exec[epoch].added) = 50
        /\ \A i \in Entries :
               Older(sorted[i]) < 50 =>
                   exec[epoch].added[Older(sorted[i]) + 1] = sorted[i].id

C11_Witness ==
    /\ pc = "idle"
    /\ AllEligibleDistinct
    /\ Len(sorted) > 51
    /\ Len(exec[epoch].added) = 50

\* C12: a group member the scan has passed is selected, whatever its last
\* activity, unless its profile was fetched within the last 24 hours (or it
\* is the local identity); a member fetched within the last 24 hours is
\* not selected through the group.
Selected(id) == Count(exec[epoch].added, id) > 0

FetchedRecently(m) ==
    m.profileLastFetchedAt >= 0 /\ m.profileLastFetchedAt + 24 * 60 > now

\* the members the generator has examined
Passed(g, k) ==
    /\ sorted[g].type = "group"
    /\ k \in 1 .. Len(sorted[g].members)
    /\ g < idx \/ (g = idx /\ k < midx)

ExpiredIndividual(id) ==
    \E i \in Entries :
        sorted[i].type = "private" /\ sorted[i].id = id /\ sorted[i].expired

C12_GroupMembers ==
    \A g \in Entries : \A k \in 1 .. Len(sorted[g].members) :
        Passed(g, k) =>
            LET m == sorted[g].members[k] IN
            /\ (~FetchedRecently(m) /\ m.id # ourConversationId)
                   => Selected(m.id)
            /\ (FetchedRecently(m) /\ ~ExpiredIndividual(m.id))
                   => ~Selected(m.id)

C12_Witness ==
    /\ pc = "idle"
    /\ \E g \in Entries : \E k, l \in 1 .. Len(sorted[g].members) :
           /\ Passed(g, k)
           /\ Passed(g, l)
           /\ sorted[g].members[k].active_at + 30 * 24 * 60 <= now
           /\ ~FetchedRecently(sorted[g].members[k])
           /\ Selected(sorted[g].members[k].id)
           /\ FetchedRecently(sorted[g].members[l])
           /\ ~Selected(sorted[g].members[l].id)

\* C13 as stated: the scan of a top-level individual whose last activity is
\* 40 days old and whose profile was never fetched does not select it.
SelectsIndividual ==
    /\ pc = "scan"
    /\ taken' = taken + 1
    /\ midx' = 1
    /\ idx' > 1
    /\ sorted[idx' - 1].type = "private"

Stale(c) ==
    /\ c.active_at = now - 40 * 24 * 60
    /\ c.profileLastFetchedAt = Nil

C13_Original ==
    [][ SelectsIndividual => ~Stale(sorted[idx' - 1]) ]_vars

\* C13 as amended: such a contact is selected as an individual only when
\* its credential has expired.
C13_Amended ==
    [][ (SelectsIndividual /\ Stale(sorted[idx' - 1]))
            => sorted[idx' - 1].expired ]_vars

C13_Witness ==
    /\ pc = "idle"
    /\ \E i \in Entries :
           /\ i < idx
           /\ sorted[i].type = "private"
           /\ Stale(sorted[i])
           /\ ~sorted[i].expired
           /\ ~Selected(sorted[i].id)
    /\ \E i \in Entries :
           /\ i < idx
           /\ sorted[i].type = "private"
           /\ Stale(sorted[i])
           /\ sorted[i].expired
           /\ Selected(sorted[i].id)

\* C14: a stored value that is present but not a valid timestamp is treated
\* as absent: the wait computed from it is 0, the throttle check of the pass
\* lets the pass persist a new timestamp, and no error comes of it.
C14_InvalidStoredValue ==
    [][ /\ (storage = Invalid /\ pc = "top" /\ pc' = "sleep")
            => sleepLeft' = 0
        /\ (storage = Invalid /\ pc = "call" /\ pc' \notin {"call", "backoff"})
            => (pc' = "put" /\ putValue' = now)
        /\ lastError' # "assert" ]_vars

C14_Witness ==
    /\ storage = Invalid
    /\ pc = "put"
    /\ putValue = now

\* C15: the wait is 0 when nothing is stored, and for a stored timestamp it
\* is what is left of the 12 hours (720 minutes) since the timestamp, 0 when
\* less than nothing is left; it is never negative.
Remaining == IF storage + 720 > now THEN (storage + 720) - now ELSE 0

C15_TimeRemaining ==
    [][ /\ (pc = "top" /\ pc' = "sleep") =>
               /\ sleepLeft' >= 0
               /\ storage = Nil => sleepLeft' = 0
               /\ storage >= 0 => sleepLeft' = Remaining
        /\ (pc = "call" /\ pc' = "top") => (storage >= 0 /\ Remaining > 0)
        /\ (pc = "call" /\ pc' = "put") => (storage >= 0 => Remaining = 0)
      ]_vars

C15_Witness ==
    /\ pc = "sleep"
    /\ adjusts = 0
    /\ storage >= 0
    /\ storage + 720 < now
    /\ sleepLeft = 0

\* C16: within a pass every clearing of credential fields comes before the
\* first fetch of the pass is started: no scan step clears a credential once
\* a fetch of the pass has been started.
C16_ClearingBeforeDispatch ==
    [][ (pc = "scan" /\ exec[epoch].totalCount > 0)
            => cleared' = cleared ]_vars

\* C17: once 50 contacts have been handed out the scan is over: the next
\* step examines no further contact, clears no credential, raises nothing
\* and goes on to await the queue.
C17_ScanStopsAtCap ==
    [][ (pc = "scan" /\ taken = 50)
            => /\ pc' = "idle"
               /\ idx' = idx
               /\ midx' = midx
               /\ seen' = seen
               /\ cleared' = cleared
               /\ lastError' = lastError
               /\ passEnd' = passEnd ]_vars

C17_Witness ==
    /\ pc = "idle"
    /\ taken = 50
    /\ passEnd # "raised"
    /\ \E i \in Entries :
           i >= idx /\ sorted[i].expired /\ sorted[i].id \notin cleared
    /\ \E i \in Entries : i >= idx /\ sorted[i].type = "unknown"

\* C18: a fetch the queue's 30-minute timeout has abandoned is counted as
\* attempted and never as succeeded: no abandoned fetch has incremented
\* successCount, and a pass returns with successCount <= totalCount.
C18_TimedOutNeverSucceeded ==
    \A p \in Passes :
        /\ exec[p].late = 0
        /\ exec[p].timedOut > 0 => exec[p].totalCount >= exec[p].timedOut
        /\ exec[p].status = "returned"
               => exec[p].successCount <= exec[p].totalCount

\* C20: in a pass the timestamp is persisted before any contact is scanned
\* or mutated and before any fetch is started; a pass that finds the
\* cooldown not elapsed, or whose write fails, scans and mutates no contact
\* and starts no fetch.
ScanChanges ==
    \/ idx' # idx
    \/ midx' # midx
    \/ seen' # seen
    \/ taken' # taken
    \/ cleared' # cleared

Persisted == storage = putValue /\ lastWrite = putValue

C20_WriteBeforeScan ==
    [][ /\ ScanChanges =>
               \/ /\ pc = "put"
                  /\ pc' = "scan"
                  /\ storage' = putValue
                  /\ idx' = 1
                  /\ midx' = 1
                  /\ taken' = 0
                  /\ cleared' = {}
               \/ pc = "scan" /\ Persisted
        /\ \A p \in Passes :
               exec'[p].totalCount > exec[p].totalCount =>
                   /\ p <= epoch
                   /\ lastWrite >= 0
                   /\ (p = epoch /\ pc \in {"scan", "idle"}) => Persisted
        /\ (pc = "call" /\ pc' = "top") =>
               /\ passEnd' = "tooSoon"
               /\ UNCHANGED << sorted, idx, midx, seen, taken, cleared >>
               /\ UNCHANGED << exec, epoch, storage >>
        /\ (pc = "put" /\ pc' = "backoff") =>
               /\ lastError' = "put"
               /\ UNCHANGED << sorted, idx, midx, seen, taken, cleared >>
               /\ UNCHANGED << exec, epoch >>
      ]_vars

C20_Witness ==
    /\ pc = "backoff"
    /\ lastError = "put"
    /\ storage # putValue
    /\ epoch = 1
    /\ exec[1].status = "over"
    /\ taken > 0

\* C19: when the local identity is unknown the loop waits a minute and
\* starts again, no pass being triggered; and if from some time on the
\* identity is known, passes are triggered again and again.
UnknownIdentityRetries ==
    /\ (pc = "sleep" /\ pc' # "sleep" /\ ourConversationId' = Nil) =>
           /\ pc' = "backoff"
           /\ sleepLeft' = 1
           /\ UNCHANGED << storage, putValue, epoch, exec, passEnd >>
           /\ UNCHANGED << sorted, idx, midx, seen, taken, cleared >>
    /\ (pc = "backoff" /\ pc' # "backoff") => (sleepLeft = 0 /\ pc' = "top")

C19_PassesRecur ==
    /\ [][UnknownIdentityRetries]_vars
    /\ (<>[](ourConversationId # Nil)) => []<>(pc = "put")

C19_Witness ==
    /\ pc = "put"
    /\ ourConversationId # Nil
    /\ lastWrite >= 0
    /\ prevWrite >= 0

====
